---------------------------- MODULE Spec2Model ----------------------------
(***************************************************************************)
(* Model of the Algolia product-list page overrides.                       *)
(*                                                                         *)
(*   Spec        the favourite-toggle handlers of ProductList              *)
(*               (addItemToWishlist / removeItemFromWishlist) and the      *)
(*               settling of the mutations they issue.                     *)
(*   SpecPage    one render of ProductList from the URL, the category      *)
(*               lookup and the product search result, and the navigation  *)
(*               handlers (resetFilters, Sort, page urls).                 *)
(*   SpecColors  sortColorVariations of the product tile partials.         *)
(***************************************************************************)
EXTENDS Integers, Sequences, FiniteSets, TLC

VARIABLES
    \* ---- favourite toggle (Spec) ----
    wishlistLoading,   \* useState([]) : list of product ids
    wishlist,          \* useWishList().data
    inflight,          \* mutations issued and not yet settled
    toasts,            \* statuses of the notifications shown, in order
    last,              \* the last handler or callback that ran (history)
    nToggles,          \* number of favourite toggles so far (history)
    nThrown,           \* toggles whose handler threw before issuing (history)
    nIssued,           \* mutation requests issued so far (history)
    \* ---- page render and navigation (SpecPage) ----
    location,          \* useLocation() + useParams(): the URL
    category,          \* useCategory(): error and data
    search,            \* useProductSearch(): isLoading, data
    res,               \* useServerContext().res exists (server-side render)
    uiState,           \* attributes refined in the InstantSearch ui state
    view,              \* what the last render of ProductList produced
    nav,               \* what the last navigation handler did (history)
    scroll,            \* the window.scrollTo(0, 0) call of the last step, if any
    analytics,         \* the analytics events the last step sent, if any
    \* ---- colour swatches (SpecColors) ----
    product,           \* props.product of the tile partial: color, colorVariations
    sortedColorVariations, \* useState(sortColorVariations(colorVariations))
    selectedColors,    \* props.selectedColors: product master id -> image link
    hover              \* what the last handleSetSelectedColors call did (history)

wishVars  == <<wishlistLoading, wishlist, inflight, toasts, last, nToggles, nThrown,
               nIssued>>
pageVars  == <<location, category, search, res, uiState, view, nav, scroll, analytics>>
colorVars == <<product, sortedColorVariations, selectedColors, hover>>
vars      == <<wishVars, pageVars, colorVars>>

\* JavaScript's undefined (not the string 'undefined')
Undefined == "<undefined>"

\* `${x}` in a template literal
Str(x) == IF x = Undefined THEN "undefined" ELSE x

(***************************************************************************)
(* Sequence helpers (Array.prototype.filter / find / includes)             *)
(***************************************************************************)
Range(s) == {s[i] : i \in 1..Len(s)}

Includes(s, x) == x \in Range(s)

\* wishlistLoading.filter((id) => id !== productId)
FilterOut(s, x) == SelectSeq(s, LAMBDA id : id # x)

(***************************************************************************)
(* Bounds                                                                  *)
(***************************************************************************)
\* favourite toggles in one run
MaxToggles == 3

Products == {"p1", "p2", "p3"}

\* useCustomerId()
customerId == "customer1"

\* The wishlists useWishList() can return once loaded.  Product p1 has an
\* item, p2 has two (find takes the first), p3 has none.
LoadedWishlist ==
    [loaded |-> TRUE, id |-> "list1",
     customerProductListItems |->
        << [id |-> "item1", productId |-> "p1"],
           [id |-> "item2", productId |-> "p2"],
           [id |-> "item3", productId |-> "p2"] >>]

\* useWishList().data before the wishlist query has answered
NoWishlist == [loaded |-> FALSE, id |-> Undefined, customerProductListItems |-> << >>]

(***************************************************************************)
(* Favourite toggle                                                        *)
(***************************************************************************)
\* promise is the state of the promise the handler returned to its caller
NoEvent == [ev |-> "none", op |-> "none", productId |-> Undefined,
            ok |-> FALSE, loadingAtIssue |-> << >>, promise |-> "none"]

\* what find returns when no item matches (reading .id of it throws)
NoItem == [id |-> Undefined, productId |-> Undefined]

\* wishlist.customerProductListItems.find((i) => i.productId === productId)
FindItem(items, productId) ==
    IF \E i \in 1..Len(items) : items[i].productId = productId
    THEN items[CHOOSE i \in 1..Len(items) :
                  /\ items[i].productId = productId
                  /\ \A j \in 1..(i-1) : items[j].productId # productId]
    ELSE NoItem

\* The request handed to createCustomerProductListItem.  An object literal is
\* the set of its <<key, value>> pairs; a key that is not given is undefined.
CreateRequest(listId, productId) ==
    [parameters |-> [customerId |-> customerId, listId |-> listId, itemId |-> Undefined],
     body |-> {<<"quantity", 1>>, <<"public", FALSE>>, <<"priority", 1>>,
               <<"type", "product">>, <<"productId", productId>>}]

\* (mutant: the item id is left out of the delete parameters)
DeleteRequestNoItem(listId, itemId) ==
    [parameters |-> [customerId |-> customerId, listId |-> listId, itemId |-> Undefined],
     body |-> {}]

\* The request handed to deleteCustomerProductListItem
DeleteRequest(listId, itemId) ==
    [parameters |-> [customerId |-> customerId, listId |-> listId, itemId |-> itemId],
     body |-> {}]

\* (mutant: the handler forgets to add the product id)
LoadingAfterToggleNoAdd(captured, productId) == captured

\* setWishlistLoading([...wishlistLoading, product.productId])
LoadingAfterToggle(captured, productId) == Append(captured, productId)

\* onSettled: setWishlistLoading(wishlistLoading.filter((id) => id !== product.productId))
\* `captured` is the wishlistLoading of the render whose handler was invoked:
\* the callback is a closure created inside that handler call.
LoadingAfterSettled(captured, productId) == FilterOut(captured, productId)

\* The handler threw before reaching the mutation call: the state update it
\* had already queued stays, nothing is issued.
HandlerThrows(op, productId) ==
    /\ wishlistLoading' = LoadingAfterToggle(wishlistLoading, productId)
    /\ nThrown' = nThrown + 1
    /\ last' = [ev |-> "threw", op |-> op, productId |-> productId, ok |-> FALSE,
                loadingAtIssue |-> << >>, promise |-> "rejected"]
    /\ UNCHANGED <<inflight, toasts, wishlist, nIssued>>

\* The handler reached `await mutateAsync(request, callbacks)`.
HandlerIssues(op, productId, request) ==
    /\ wishlistLoading' = LoadingAfterToggle(wishlistLoading, productId)
    /\ inflight' = inflight \cup
          {[op |-> op, productId |-> productId, captured |-> wishlistLoading,
            request |-> request]}
    /\ nIssued' = nIssued + 1
    /\ last' = [ev |-> "issued", op |-> op, productId |-> productId, ok |-> FALSE,
                loadingAtIssue |-> LoadingAfterToggle(wishlistLoading, productId),
                promise |-> "pending"]
    /\ UNCHANGED <<nThrown, toasts, wishlist>>

\* onFavouriteToggle is invoked by the product tile (not part of this file), one
\* toggle per tile at a time: the toggles in flight are on distinct products.
CanToggle(productId) ==
    /\ nToggles < MaxToggles
    /\ \A m \in inflight : m.productId # productId

\* addItemToWishlist(product): lines 258-302
addItemToWishlist(productId) ==
    /\ CanToggle(productId)
    /\ nToggles' = nToggles + 1
    /\ IF ~wishlist.loaded
       THEN HandlerThrows("create", productId)          \* wishlist.id of undefined
       ELSE HandlerIssues("create", productId, CreateRequest(wishlist.id, productId))
    /\ UNCHANGED <<pageVars, colorVars>>

\* removeItemFromWishlist(product): lines 304-335
removeItemFromWishlist(productId) ==
    /\ CanToggle(productId)
    /\ nToggles' = nToggles + 1
    /\ IF ~wishlist.loaded
       THEN HandlerThrows("delete", productId)          \* wishlist.id of undefined
       ELSE LET item == FindItem(wishlist.customerProductListItems, productId)
            IN  IF item = NoItem
                THEN HandlerThrows("delete", productId) \* (undefined).id
                ELSE HandlerIssues("delete", productId, DeleteRequest(wishlist.id, item.id))
    /\ UNCHANGED <<pageVars, colorVars>>

\* (mutant: a failed mutation shows no notification)
ToastsAfterSettledNoError(shown, ok) == IF ok THEN Append(shown, "success") ELSE shown

\* onError: toast({..., status: 'error'}); onSuccess: toast({..., status: 'success'})
ToastsAfterSettled(shown, ok) == Append(shown, IF ok THEN "success" ELSE "error")

\* (mutant: a failed mutation is issued again)
InflightAfterSettledRetries(pending, m, ok) == IF ok THEN pending \ {m} ELSE pending

\* The callbacks issue nothing: the settled mutation is gone, none is added.
InflightAfterSettled(pending, m, ok) == pending \ {m}

\* `await mutateAsync(...)` with no try/catch around it: the handler's promise
\* is fulfilled when the mutation succeeded and rejected when it failed.
PromiseAfterSettled(ok) == IF ok THEN "fulfilled" ELSE "rejected"

\* The mutation of m settles: onSuccess or onError, then onSettled, then the
\* handler resumes after its await.
MutationSettles(m, ok) ==
    /\ m \in inflight
    /\ inflight' = InflightAfterSettled(inflight, m, ok)
    /\ toasts' = ToastsAfterSettled(toasts, ok)
    /\ wishlistLoading' = LoadingAfterSettled(m.captured, m.productId)
    /\ last' = [ev |-> "settled", op |-> m.op, productId |-> m.productId, ok |-> ok,
                loadingAtIssue |-> << >>, promise |-> PromiseAfterSettled(ok)]
    /\ UNCHANGED <<wishlist, nToggles, nThrown, nIssued, pageVars, colorVars>>

\* The wishlist query answers.
WishlistLoads ==
    /\ ~wishlist.loaded
    /\ wishlist' = LoadedWishlist
    /\ UNCHANGED <<wishlistLoading, inflight, toasts, last, nToggles, nThrown,
                   nIssued, pageVars, colorVars>>

(***************************************************************************)
(* Page render                                                             *)
(***************************************************************************)
\* An optional value: << >> is undefined / null, <<x>> is x.
None == << >>
Some(x) == <<x>>

REFINEMENT_DISALLOW_LIST == <<"c_isNew">>

currentRefinementAttributes == <<"size", "color", "price.USD", "__primary_category.0">>

\* ---- the URLs the page is visited with ----
\* urlParams.get('q'): null (here Undefined) when the parameter is absent
Queries == {Undefined, "", "shoes"}

\* params.categoryId: undefined on the /search route
CategoryIds == {Undefined, "c1"}

SortIds == <<"best-matches", "price-low-to-high">>

Offsets == {0, 25}

\* refine=... entries of the URL, each <<attribute, value>> for 'attribute=value'
UrlRefines ==
    { << >>,
      << <<"c_refinementColor", "Red">> >>,
      << <<"c_refinementColor", "Red">>, <<"c_isNew", "true">> >> }

Locations ==
    [categoryId : CategoryIds, q : Queries, sort : {Undefined} \cup Range(SortIds),
     offset : Offsets, refine : UrlRefines]

\* JavaScript truthiness of a string or undefined
Truthy(x) == x # Undefined /\ x # ""

\* const isSearch = !!searchQuery
IsSearch(loc) == Truthy(loc.q)

\* useSearchParams(): the parsed URL; refine is the object built from the
\* refine entries (one key per attribute, a later entry replacing an earlier
\* one), _refine the raw entries.
RECURSIVE ParseRefine(_)
ParseRefine(entries) ==
    IF entries = << >> THEN << >>
    ELSE LET n     == Len(entries)
             e     == entries[n]
             front == ParseRefine(SubSeq(entries, 1, n - 1))
         IN  IF \E i \in 1..Len(front) : front[i][1] = e[1]
             THEN [i \in 1..Len(front) |-> IF front[i][1] = e[1] THEN e ELSE front[i]]
             ELSE Append(front, e)

SearchParamsOf(loc) ==
    [q |-> loc.q, sort |-> loc.sort, offset |-> loc.offset,
     refine |-> ParseRefine(loc.refine), _refine |-> loc.refine]

\* if (params.categoryId) searchParams._refine.push(`cgid=${params.categoryId}`)
RefineWithCgid(loc) ==
    IF Truthy(loc.categoryId)
    THEN Append(SearchParamsOf(loc)._refine, <<"cgid", loc.categoryId>>)
    ELSE SearchParamsOf(loc)._refine

\* (mutant: the sort of the URL is not handed to the product search)
ProductSearchParametersNoSort(loc) ==
    [q |-> loc.q, sort |-> Undefined, offset |-> loc.offset,
     refine |-> RefineWithCgid(loc), _refine |-> RefineWithCgid(loc)]

\* parameters: {...searchParams, refine: searchParams._refine}
ProductSearchParameters(loc) ==
    [q |-> loc.q, sort |-> loc.sort, offset |-> loc.offset,
     refine |-> RefineWithCgid(loc), _refine |-> RefineWithCgid(loc)]

\* enabled: !isSearch && !!params.categoryId
CategoryEnabled(loc) == ~IsSearch(loc) /\ Truthy(loc.categoryId)

\* (mutant: the deny-list is not applied)
ApplyDisallowListKeepAll(refinements) == refinements

\* productSearchResult.refinements.filter(
\*     ({attributeId}) => !REFINEMENT_DISALLOW_LIST.includes(attributeId))
ApplyDisallowList(refinements) ==
    SelectSeq(refinements, LAMBDA attributeId : ~Includes(REFINEMENT_DISALLOW_LIST, attributeId))

\* if (productSearchResult?.refinements) productSearchResult.refinements = ...
\* The result object is changed in place.
FilteredResult(data) ==
    IF data # None /\ data[1].refinements # None
    THEN Some([data[1] EXCEPT !.refinements = Some(ApplyDisallowList(data[1].refinements[1]))])
    ELSE data

\* const errorStatus = error?.response?.status
ErrorStatus(error) ==
    IF error = None THEN None
    ELSE IF error[1].response = None THEN None
    ELSE Some(error[1].response[1].status)

NotThrown == [type |-> "none", message |-> << >>]

\* (mutant: the 404 case is missing from the switch)
ThrownNo404Case(errorStatus) ==
    IF errorStatus = None THEN NotThrown
    ELSE [type |-> "HTTPError",
          message |-> <<"HTTP Error ", errorStatus[1], " occurred.">>]

\* switch (errorStatus) { case undefined: break; case 404: throw new HTTPNotFound(...)
\*                        default: throw new HTTPError(...) }
Thrown(errorStatus) ==
    IF errorStatus = None THEN NotThrown
    ELSE IF errorStatus[1] = 404
         THEN [type |-> "HTTPNotFound", message |-> <<"Category Not Found.">>]
         ELSE [type |-> "HTTPError",
               message |-> <<"HTTP Error ", errorStatus[1], " occurred.">>]

\* (mutant: the filter does not wait for the product search)
FiltersIgnoreLoading(cat, srch) ==
    IF cat.data # None /\ Truthy(cat.data[1].id)
    THEN "categories.id:" \o cat.data[1].id
    ELSE ""

\* const filters = !isLoading && category?.id ? `categories.id:${category.id}` : ''
Filters(cat, srch) ==
    IF ~srch.isLoading /\ cat.data # None /\ Truthy(cat.data[1].id)
    THEN "categories.id:" \o cat.data[1].id
    ELSE ""

\* const query = searchQuery ?? ''
Query(loc) == IF loc.q = Undefined THEN "" ELSE loc.q

\* <AlgoliaCurrentRefinements includedAttributes={...}/>: of the attributes
\* refined in the ui state, the ones named by includedAttributes are shown.
AlgoliaCurrentRefinements(includedAttributes, refined) ==
    {a \in refined : Includes(includedAttributes, a)}

\* (mutant: the header is set before the error switch)
CacheControlBeforeSwitch(thrown, server) ==
    IF server THEN Some("max-age=MAX_CACHE_AGE") ELSE None

\* if (res) res.set('Cache-Control', `max-age=${MAX_CACHE_AGE}`), reached only
\* when the switch has not thrown
CacheControl(thrown, server) ==
    IF thrown.type = "none" /\ server THEN Some("max-age=MAX_CACHE_AGE") ELSE None

\* One call of ProductList: what it hands to its hooks, what it throws and
\* what it passes down.  Nothing after the throw is evaluated.
Render(loc, cat, srch, server, refined) ==
    LET thrown == Thrown(ErrorStatus(cat.error))
        ok     == thrown.type = "none"
    IN  [isSearch         |-> IsSearch(loc),
         searchParameters |-> ProductSearchParameters(loc),
         categoryEnabled  |-> CategoryEnabled(loc),
         refinements      |-> IF srch.data = None THEN None
                              ELSE FilteredResult(srch.data)[1].refinements,
         thrown           |-> thrown,
         cacheControl     |-> CacheControl(thrown, server),
         query            |-> IF ok THEN Query(loc) ELSE Undefined,
         filters          |-> IF ok THEN Filters(cat, srch) ELSE Undefined,
         shown            |-> IF ok
                              THEN AlgoliaCurrentRefinements(currentRefinementAttributes, refined)
                              ELSE {}]

\* ---- the two queries of the page ----
CategoryIdle == [key |-> Undefined, status |-> "idle", error |-> None, data |-> None]

CategoryLoading(id) == [key |-> id, status |-> "loading", error |-> None, data |-> None]

ErrorStatuses == {400, 404, 500}

\* What the category lookup can answer for category id.
CategoryAnswersFor(id) ==
    {[key |-> id, status |-> "success", error |-> None, data |-> Some([id |-> id])]}
    \cup {[key |-> id, status |-> "error", data |-> None,
           error |-> Some([response |-> Some([status |-> st])])] : st \in ErrorStatuses}
    \cup {[key |-> id, status |-> "error", data |-> None,
           error |-> Some([response |-> None])]}

\* useCategory({parameters: {id}}, {enabled}) after the URL became loc
CategoryQuery(loc, cat) ==
    IF ~CategoryEnabled(loc) THEN CategoryIdle
    ELSE IF cat.key = loc.categoryId THEN cat
    ELSE CategoryLoading(loc.categoryId)

\* What the product search can answer: a result with the refinements the
\* upstream lists (attribute ids), with or without hits.
SearchAnswers ==
    {[hits |-> h, refinements |-> r] :
        h \in BOOLEAN,
        r \in {None, Some(<< >>), Some(<<"c_refinementColor", "c_isNew", "price">>)}}

\* The number of fetches a change of the parameters from oldKey to newKey starts:
\* the query is keyed by its parameters.
FetchesStarted(oldKey, newKey) == IF newKey # oldKey THEN 1 ELSE 0

\* useProductSearch({parameters}, {keepPreviousData: true}) after the URL became loc
ProductSearchQuery(loc, srch) ==
    LET key == ProductSearchParameters(loc)
    IN  IF FetchesStarted(srch.key, key) = 0 THEN srch
        ELSE IF srch.data = None
             THEN [key |-> key, isLoading |-> TRUE, isRefetching |-> FALSE, data |-> None]
             ELSE [key |-> key, isLoading |-> FALSE, isRefetching |-> TRUE, data |-> srch.data]

\* The page is mounted and has not thrown into the error boundary.
Mounted == ~res /\ view.thrown.type = "none"

NoScroll == [by |-> "none", mount |-> FALSE, was |-> FALSE, is |-> FALSE]

\* (mutant: the effect scrolls whenever it runs)
EffectScrollsOnAnyRun(mounting, was, is) == mounting \/ was # is

\* useEffect(() => { isRefetching && window.scrollTo(0, 0); ... }, [isRefetching]):
\* the effect runs after the first render and after a render in which
\* isRefetching differs from the previous render's; it scrolls when the flag is set.
EffectScrolls(mounting, was, is) == (mounting \/ was # is) /\ is

\* the scrollTo call of the effect after a render, was/is the flag in the
\* previous render (FALSE when there is none) and in this one
ScrollAfterRender(mounting, was, is) ==
    IF EffectScrolls(mounting, was, is)
    THEN [by |-> "effect", mount |-> mounting, was |-> was, is |-> is]
    ELSE NoScroll

NoAnalytics == [on |-> "none", events |-> << >>]

ViewSearchEvent(query) ==
    [type |-> "viewSearch", query |-> query, category |-> None, hit |-> Undefined]

ViewCategoryEvent(categoryData) ==
    [type |-> "viewCategory", query |-> Undefined, category |-> categoryData, hit |-> Undefined]

\* useEffect(() => { if (productSearchResult) isSearch ? einstein.sendViewSearch(...)
\*                    : einstein.sendViewCategory(...) }, [productSearchResult]):
\* the effect runs after the first render and after a render with another
\* result object (an answer equal to the data held keeps the object).
ViewEvents(mounting, loc, cat, oldData, newData) ==
    IF (mounting \/ newData # oldData) /\ newData # None
    THEN [on |-> "result",
          events |-> IF IsSearch(loc) THEN <<ViewSearchEvent(loc.q)>>
                     ELSE <<ViewCategoryEvent(cat.data)>>]
    ELSE NoAnalytics

\* The state after ProductList has rendered with these hook results; the
\* effects run only when the render has not thrown.
Rendered(loc, cat, srch, server, refined) ==
    /\ location' = loc
    /\ category' = cat
    /\ search' = [srch EXCEPT !.data = FilteredResult(srch.data)]
    /\ res' = server
    /\ uiState' = refined
    /\ view' = Render(loc, cat, srch, server, refined)
    /\ scroll' = IF Thrown(ErrorStatus(cat.error)).type = "none"
                 THEN ScrollAfterRender(FALSE, search.isRefetching, srch.isRefetching)
                 ELSE NoScroll
    /\ analytics' = IF Thrown(ErrorStatus(cat.error)).type = "none"
                    THEN ViewEvents(FALSE, loc, cat, search.data, srch.data)
                    ELSE NoAnalytics

NoNav == [kind |-> "none", from |-> Undefined, to |-> Undefined, fetches |-> 0]

\* history.push / navigate to the URL `to`, and the render that follows
Navigate(kind, to) ==
    /\ nav' = [kind |-> kind, from |-> location, to |-> to,
               fetches |-> FetchesStarted(search.key, ProductSearchParameters(to))]
    /\ Rendered(to, CategoryQuery(to, category), ProductSearchQuery(to, search), FALSE, uiState)
    /\ UNCHANGED <<wishVars, colorVars>>

\* stringifySearchParams: the refine object back to refine entries (one per
\* key), the other parameters as they are
Stringify(sp) ==
    [q |-> sp.q, sort |-> sp.sort, offset |-> sp.offset,
     refine |-> [i \in 1..Len(sp.refine) |-> sp.refine[i]]]

\* resetFilters: the URL it navigates to
ResetTarget(loc) ==
    LET newSearchParams == [SearchParamsOf(loc) EXCEPT !.refine = << >>]
        query == Stringify(newSearchParams)
    IN  [categoryId |-> IF IsSearch(loc) THEN Undefined ELSE Str(loc.categoryId),
         q |-> query.q, sort |-> query.sort, offset |-> query.offset,
         refine |-> query.refine]

\* resetFilters(): lines 338-348
resetFilters ==
    /\ Mounted
    /\ Navigate("resetFilters", ResetTarget(location))

\* useSortUrls: the current URL with the sort option and offset 0
SortUrl(loc, sortId) == [loc EXCEPT !.sort = sortId, !.offset = 0]

\* usePageUrls: the current URL with the page's offset
PageUrl(loc, offset) == [loc EXCEPT !.offset = offset]

\* The option the sort select displays: the one whose url is
\* basePath.replace(/(offset)=(\d+)/i, '$1=0'), the first one when none is.
SelectedSort(loc) == IF loc.sort = Undefined THEN SortIds[1] ELSE loc.sort

\* Sort: onChange={({target}) => history.push(target.value)}
SortChange(sortId) ==
    /\ Mounted
    /\ search.data # None
    /\ sortId # SelectedSort(location)
    /\ Navigate("sort", SortUrl(location, sortId))

\* following one of pageUrls
PageChange(offset) ==
    /\ Mounted
    /\ search.data # None
    /\ offset # location.offset
    /\ Navigate("page", PageUrl(location, offset))

\* the category lookup answers
CategoryAnswers(answer) ==
    /\ Mounted
    /\ category.status = "loading"
    /\ nav' = NoNav
    /\ Rendered(location, answer, search, FALSE, uiState)
    /\ UNCHANGED <<wishVars, colorVars>>

\* the product search answers
SearchAnswersWith(answer) ==
    /\ Mounted
    /\ search.isLoading \/ search.isRefetching
    /\ nav' = NoNav
    /\ Rendered(location, category,
                [search EXCEPT !.isLoading = FALSE, !.isRefetching = FALSE,
                               !.data = Some(answer)],
                FALSE, uiState)
    /\ UNCHANGED <<wishVars, colorVars>>

\* <AlgoliaPagination onPageChange={() => window.scrollTo(0, 0)} />: the
\* pagination control reports a page change
AlgoliaPageChange ==
    /\ Mounted
    /\ scroll' = [by |-> "onPageChange", mount |-> FALSE,
                  was |-> search.isRefetching, is |-> search.isRefetching]
    /\ nav' = NoNav
    /\ analytics' = NoAnalytics
    /\ UNCHANGED <<location, category, search, res, uiState, view, wishVars, colorVars>>

\* the hits the tiles are rendered for
Hits == {"hit1", "hit2"}

AlgoliaClickEvent(hit) ==
    [type |-> "algoliaClick", query |-> Undefined, category |-> None, hit |-> hit]

\* onClick: sendEvent('click', hit, 'Product Clicked');
\*          if (searchQuery) einstein.sendClickSearch(searchQuery, hit)
\*          else if (category) einstein.sendClickCategory(category, hit)
ClickEvents(loc, cat, hit) ==
    <<AlgoliaClickEvent(hit)>> \o
    (IF Truthy(loc.q)
     THEN <<[type |-> "clickSearch", query |-> loc.q, category |-> None, hit |-> hit]>>
     ELSE IF cat.data # None
          THEN <<[type |-> "clickCategory", query |-> Undefined, category |-> cat.data,
                  hit |-> hit]>>
          ELSE << >>)

\* a product tile is clicked; <AlgoliaHits isLoading={isLoading} .../> shows
\* the tiles once the product search has loaded
ProductClick(hit) ==
    /\ Mounted
    /\ ~search.isLoading
    /\ analytics' = [on |-> "click", events |-> ClickEvents(location, category, hit)]
    /\ scroll' = NoScroll
    /\ nav' = NoNav
    /\ UNCHANGED <<location, category, search, res, uiState, view, wishVars, colorVars>>

AlgoliaAttributes == {"color", "c_isNew"}

\* a refinement control of the page toggles attribute a in the ui state
AlgoliaRefine(a) ==
    /\ Mounted
    /\ nav' = NoNav
    /\ Rendered(location, category, search, FALSE,
                IF a \in uiState THEN uiState \ {a} ELSE uiState \cup {a})
    /\ UNCHANGED <<wishVars, colorVars>>

\* The first render of a page view: on the server (res exists, the queries
\* have answered) or on the client (they are loading).
PageInit ==
    \E loc \in Locations, server \in BOOLEAN, hydrated \in BOOLEAN :
        \E cat \in (IF ~CategoryEnabled(loc) THEN {CategoryIdle}
                    ELSE IF server THEN CategoryAnswersFor(loc.categoryId)
                    ELSE IF hydrated
                         THEN {c \in CategoryAnswersFor(loc.categoryId) : c.status = "success"}
                         ELSE {CategoryLoading(loc.categoryId)}),
           data \in (IF server \/ hydrated THEN {Some(a) : a \in SearchAnswers} ELSE {None}),
           refetching \in (IF ~server /\ hydrated THEN BOOLEAN ELSE {FALSE}) :
            \* the first render: on the server with the answers of the queries,
            \* on the client either with the queries loading or hydrated with
            \* the server's data, which the product search may be refetching
            LET srch == [key |-> ProductSearchParameters(loc),
                         isLoading |-> ~server /\ ~hydrated,
                         isRefetching |-> refetching, data |-> data]
            IN  /\ location = loc
                /\ category = cat
                /\ search = [srch EXCEPT !.data = FilteredResult(data)]
                /\ res = server
                /\ uiState = {}
                /\ view = Render(loc, cat, srch, server, {})
                /\ nav = NoNav
                \* no effect runs on the server, nor after a render that throws
                /\ scroll = IF server \/ Thrown(ErrorStatus(cat.error)).type # "none"
                            THEN NoScroll
                            ELSE ScrollAfterRender(TRUE, FALSE, srch.isRefetching)
                /\ analytics = IF server \/ Thrown(ErrorStatus(cat.error)).type # "none"
                               THEN NoAnalytics
                               ELSE ViewEvents(TRUE, loc, cat, None, data)

WishIdle ==
    /\ wishlistLoading = << >>
    /\ wishlist = NoWishlist
    /\ inflight = {}
    /\ toasts = << >>
    /\ last = NoEvent
    /\ nToggles = 0
    /\ nThrown = 0
    /\ nIssued = 0

(***************************************************************************)
(* Colour swatches (algolia-product-colors.jsx, algolia-product-swatch.jsx) *)
(***************************************************************************)
\* colour variants of one product
MaxVariants == 3

VariantColors == {"red", "blue", "green"}

\* product.color: a colour of the variants or one none of them has
ProductColors == {"red", "blue", "black"}

\* what find returns when no variant matches
NoVariant == [id |-> 0, color |-> Undefined]

\* The colorVariations lists: variant i of the source list has id i.
ColorVariationLists ==
    UNION {[1..n -> VariantColors] : n \in 0..MaxVariants}

VariantsOf(colorsOf) == [i \in 1..Len(colorsOf) |-> [id |-> i, color |-> colorsOf[i]]]

\* props.product; colorVariations may be missing
TileProducts ==
    [color : ProductColors,
     colorVariations : {None} \cup {Some(VariantsOf(c)) : c \in ColorVariationLists}]

\* colorVariations.find((color) => color.color === product.color)
FindColor(colorVariations, productColor) ==
    IF \E i \in 1..Len(colorVariations) : colorVariations[i].color = productColor
    THEN colorVariations[CHOOSE i \in 1..Len(colorVariations) :
              /\ colorVariations[i].color = productColor
              /\ \A j \in 1..(i-1) : colorVariations[j].color # productColor]
    ELSE NoVariant

\* colorVariations.filter((color) => color.color !== product.color)
OtherColors(colorVariations, productColor) ==
    SelectSeq(colorVariations, LAMBDA v : v.color # productColor)

Reverse(s) == [i \in 1..Len(s) |-> s[Len(s) + 1 - i]]

\* (mutant: the other colours come out in reverse order)
sortColorVariationsReversed(colorVariations, productColor) ==
    IF colorVariations = None THEN << >>
    ELSE <<FindColor(colorVariations[1], productColor)>>
            \o Reverse(OtherColors(colorVariations[1], productColor))

\* sortColorVariations(colorVariations): lines 41-47 of both partials
sortColorVariations(colorVariations, productColor) ==
    IF colorVariations = None THEN << >>
    ELSE <<FindColor(colorVariations[1], productColor)>>
            \o OtherColors(colorVariations[1], productColor)

\* product.masterID of the tiles on the page
MasterIDs == {"m1", "m2"}

\* dis_base_link of an image: a URL, possibly empty
Links == {"", "a.jpg", "b.jpg"}

\* JavaScript null
Null == "<null>"

\* JavaScript falsiness of an entry of selectedColors
Falsy(x) == x \in {Undefined, Null, ""}

\* The variants a swatch is rendered for, as far as the handler reads them:
\* one image group with two images.
HoverVariants ==
    {[image_groups |-> <<[images |-> <<[dis_base_link |-> l1], [dis_base_link |-> l2]>>]>>] :
        l1 \in Links, l2 \in Links}

\* {} : no product has an entry
NoSelectedColors == [m \in MasterIDs |-> Undefined]

NoHover == [masterID |-> Undefined, variant |-> << >>, called |-> FALSE,
            before |-> NoSelectedColors]

\* const newPhotoUrl = variant.image_groups[0].images[0].dis_base_link
NewPhotoUrl(variant) == variant.image_groups[1].images[1].dis_base_link

\* let allColors = {...selectedColors}
\* if (!allColors[product.masterID]) allColors[product.masterID] = null
AllColors(selected, masterID) ==
    IF Falsy(selected[masterID]) THEN [selected EXCEPT ![masterID] = Null] ELSE selected

\* if (newPhotoUrl !== allColors[product.masterID]) : setSelectedColors is called
CallsSetSelectedColors(selected, masterID, variant) ==
    NewPhotoUrl(variant) # AllColors(selected, masterID)[masterID]

\* handleSetSelectedColors(variant) in the tile of the product masterID;
\* setSelectedColors({...allColors}) replaces the state the props are read from
handleSetSelectedColors(masterID, variant) ==
    /\ selectedColors' =
          IF CallsSetSelectedColors(selectedColors, masterID, variant)
          THEN [AllColors(selectedColors, masterID) EXCEPT ![masterID] = NewPhotoUrl(variant)]
          ELSE selectedColors
    /\ hover' = [masterID |-> masterID, variant |-> <<variant>>,
                 called |-> CallsSetSelectedColors(selectedColors, masterID, variant),
                 before |-> selectedColors]
    /\ UNCHANGED <<product, sortedColorVariations, wishVars, pageVars>>

HoverIdle ==
    /\ selectedColors = NoSelectedColors
    /\ hover = NoHover

\* useState(sortColorVariations(colorVariations)) when the partial mounts
TileMounted(p) ==
    /\ product = p
    /\ sortedColorVariations = sortColorVariations(p.colorVariations, p.color)
    /\ HoverIdle

\* a tile is mounted for another hit
MountTile(p) ==
    /\ product' = p
    /\ sortedColorVariations' = sortColorVariations(p.colorVariations, p.color)
    /\ UNCHANGED <<selectedColors, hover, wishVars, pageVars>>

WishInit ==
    /\ wishlistLoading = << >>
    /\ wishlist \in {NoWishlist, LoadedWishlist}
    /\ inflight = {}
    /\ toasts = << >>
    /\ last = NoEvent
    /\ nToggles = 0
    /\ nThrown = 0
    /\ nIssued = 0

PageIdle ==
    /\ location = Undefined
    /\ category = Undefined
    /\ search = Undefined
    /\ res = FALSE
    /\ uiState = {}
    /\ view = Undefined
    /\ nav = Undefined
    /\ scroll = Undefined
    /\ analytics = Undefined

ColorsIdle ==
    /\ product = Undefined
    /\ sortedColorVariations = << >>
    /\ HoverIdle

Init == WishInit /\ PageIdle /\ ColorsIdle

Next ==
    \/ \E p \in Products : addItemToWishlist(p)
    \/ \E p \in Products : removeItemFromWishlist(p)
    \/ \E m \in inflight, ok \in BOOLEAN : MutationSettles(m, ok)
    \/ WishlistLoads

Spec == Init /\ [][Next]_vars

InitPage == WishIdle /\ PageInit /\ ColorsIdle

NextPage ==
    \/ resetFilters
    \/ \E s \in Range(SortIds) : SortChange(s)
    \/ \E o \in Offsets : PageChange(o)
    \/ \E answer \in CategoryAnswersFor(category.key) : CategoryAnswers(answer)
    \/ \E answer \in SearchAnswers : SearchAnswersWith(answer)
    \/ \E a \in AlgoliaAttributes : AlgoliaRefine(a)
    \/ AlgoliaPageChange
    \/ \E h \in Hits : ProductClick(h)

SpecPage == InitPage /\ [][NextPage]_vars

InitColors == WishIdle /\ PageIdle /\ \E p \in TileProducts : TileMounted(p)

NextColors == \E p \in TileProducts : MountTile(p)

SpecColors == InitColors /\ [][NextColors]_vars

InitHover == WishIdle /\ PageIdle /\ ColorsIdle

NextHover == \E m \in MasterIDs, v \in HoverVariants : handleSetSelectedColors(m, v)

SpecHover == InitHover /\ [][NextHover]_vars


(***************************************************************************)
(* Claims on the favourite toggle                                          *)
(***************************************************************************)

\* C1: for one favourite toggle (add or remove) the product id is in
\* wishlistLoading when the mutation request is issued, and it is not in
\* wishlistLoading once that mutation's own callbacks have run, whether the
\* mutation succeeded or failed.
C1_LoadingSetThenCleared ==
    /\ last.ev = "issued" =>
          /\ Includes(last.loadingAtIssue, last.productId)
          /\ Includes(wishlistLoading, last.productId)
    /\ last.ev = "settled" => ~Includes(wishlistLoading, last.productId)
    /\ (nToggles = 1 /\ nThrown = 0 /\ inflight = {}) => wishlistLoading = << >>

\* a single toggle whose mutation failed has settled
C1_Witness ==
    /\ nToggles = 1
    /\ last.ev = "settled"
    /\ ~last.ok
    /\ wishlistLoading = << >>

\* C2: once every issued mutation has settled (and every toggle did issue
\* one), wishlistLoading is empty.
C2_AllSettledLoadingEmpty ==
    (nToggles > 0 /\ nThrown = 0 /\ inflight = {}) => wishlistLoading = << >>

\* C3: a product whose mutation has been issued and has not settled is in
\* wishlistLoading.
C3_InFlightImpliesLoading ==
    \A m \in inflight : Includes(wishlistLoading, m.productId)

(***************************************************************************)
(* Claims on the page render and the navigation handlers (SpecPage)        *)
(***************************************************************************)

\* C4: a category lookup error with status 404 makes the render throw
\* HTTPNotFound, one with any other status makes it throw HTTPError with that
\* status in the message, and no error makes it throw nothing.
C4_ErrorMapping ==
    LET hasStatus == category.error # None /\ category.error[1].response # None
        status    == category.error[1].response[1].status
    IN  /\ (hasStatus /\ status = 404) => view.thrown.type = "HTTPNotFound"
        /\ (hasStatus /\ status # 404) =>
              /\ view.thrown.type = "HTTPError"
              /\ view.thrown.message[2] = status
        /\ category.error = None => view.thrown.type = "none"

\* the lookup failed with a status other than 404 and the render threw
C4_Witness ==
    /\ category.error # None
    /\ category.error[1].response = Some([status |-> 500])
    /\ view.thrown.type = "HTTPError"

C8_ResetKeepsScope ==
    nav.kind = "resetFilters" =>
        /\ nav.to.refine = << >>
        /\ IF Truthy(nav.from.q)
           THEN nav.to.categoryId = Undefined
           ELSE nav.to.categoryId = nav.from.categoryId
        /\ nav.to.q = nav.from.q
        /\ nav.to.sort = nav.from.sort
        /\ nav.to.offset = nav.from.offset

C10_ExactlyOneMode ==
    LET refine == view.searchParameters.refine
        cgid   == \E i \in 1..Len(refine) : refine[i][1] = "cgid"
    IN  IF Truthy(location.q)
        THEN ~view.categoryEnabled /\ ~cgid /\ view.filters \in {"", Undefined}
        ELSE view.categoryEnabled /\ cgid

(***************************************************************************)
(* Claims on the colour swatches (SpecColors)                              *)
(***************************************************************************)

\* C5: for a product with N >= 1 colour variants the sorted list has N
\* elements, and when the product's colour is among the variants its first
\* element has that colour.
C5_LengthAndFirst ==
    (product.colorVariations # None /\ product.colorVariations # Some(<< >>)) =>
        LET cv == product.colorVariations[1]
        IN  /\ Len(sortedColorVariations) = Len(cv)
            /\ (\E i \in 1..Len(cv) : cv[i].color = product.color) =>
                  sortedColorVariations[1].color = product.color

\* C6: the variants of another colour than the product's come after the first
\* element, in the order they have in colorVariations.
C6_OthersKeepSourceOrder ==
    product.colorVariations # None =>
        LET other(v) == v # NoVariant /\ v.color # product.color
            sorted   == sortedColorVariations
        IN  /\ SelectSeq(sorted, other) = SelectSeq(product.colorVariations[1], other)
            /\ \A i \in 1..Len(sorted) : other(sorted[i]) => i > 1
            /\ \A i, j \in 1..Len(sorted) :
                  (other(sorted[i]) /\ other(sorted[j]) /\ i < j) => sorted[i].id < sorted[j].id

\* the matching variant was moved in front of two variants of other colours
C6_Witness ==
    /\ product.colorVariations # None
    /\ Len(product.colorVariations[1]) = 3
    /\ product.colorVariations[1][3].color = product.color
    /\ sortedColorVariations[1].id = 3
    /\ sortedColorVariations[2].id = 1
    /\ sortedColorVariations[3].id = 2

(***************************************************************************)
(* Further claims on the favourite toggle (Spec)                           *)
(***************************************************************************)

\* C11: when a wishlist mutation fails, the promise the handler returned to
\* its caller is fulfilled, not rejected, and an error notification is shown.
C11_FailureDoesNotPropagate ==
    (last.ev = "settled" /\ ~last.ok) =>
        /\ last.promise = "fulfilled"
        /\ toasts # << >> /\ toasts[Len(toasts)] = "error"

\* C12: every settled mutation has shown exactly one notification, of the
\* status of its outcome: as many notifications as settled mutations, and
\* the last one matches the mutation that settled last.
C12_OneToastPerSettle ==
    /\ Len(toasts) = nIssued - Cardinality(inflight)
    /\ last.ev = "settled" =>
          /\ toasts # << >>
          /\ toasts[Len(toasts)] = (IF last.ok THEN "success" ELSE "error")

\* a success and a failure have settled, each with its own notification
C12_Witness ==
    /\ toasts = <<"success", "error">>
    /\ inflight = {}
    /\ last.ev = "settled"
    /\ ~last.ok

C17_RequestShape ==
    \A m \in inflight :
        /\ m.request.parameters.customerId = customerId
        /\ m.request.parameters.listId = wishlist.id
        /\ m.op = "create" =>
              /\ m.request.parameters.itemId = Undefined
              /\ m.request.body =
                    {<<"quantity", 1>>, <<"public", FALSE>>, <<"priority", 1>>,
                     <<"type", "product">>, <<"productId", m.productId>>}
        /\ m.op = "delete" =>
              \E i \in 1..Len(wishlist.customerProductListItems) :
                  /\ wishlist.customerProductListItems[i].productId = m.productId
                  /\ wishlist.customerProductListItems[i].id = m.request.parameters.itemId

\* an add for p3 and a remove for p2 are in flight
C17_Witness ==
    /\ \E m \in inflight : m.op = "create" /\ m.productId = "p3"
    /\ \E m \in inflight :
          m.op = "delete" /\ m.productId = "p2" /\ m.request.parameters.itemId = "item2"

\* C19: a toggle that put a product id in wishlistLoading has a mutation for
\* that product in flight when its handler stops.
C19_FlagImpliesMutation ==
    last.ev \in {"issued", "threw"} =>
        \E m \in inflight : m.productId = last.productId

(***************************************************************************)
(* Further claims on the product list page (SpecPage)                      *)
(***************************************************************************)

\* C14: the Cache-Control header with the fixed max-age is set exactly when
\* there is a server response object and the category lookup reported no
\* error status; a render that throws never sets it.
C14_CacheControlOnSuccess ==
    LET hasStatus == category.error # None /\ category.error[1].response # None
    IN  /\ (res /\ ~hasStatus) => view.cacheControl = Some("max-age=MAX_CACHE_AGE")
        /\ (~res \/ hasStatus) => view.cacheControl = None
        /\ view.thrown.type # "none" => view.cacheControl = None

\* a server render of a category page whose lookup succeeded set the header
C14_Witness ==
    /\ res
    /\ category.status = "success"
    /\ view.cacheControl = Some("max-age=MAX_CACHE_AGE")

\* C15 as stated: the scroll position is reset only when the refetching flag
\* changes from false to true between two renders.
C15_ScrollOnlyOnRefetchStart ==
    scroll.by # "none" =>
        scroll.by = "effect" /\ ~scroll.mount /\ ~scroll.was /\ scroll.is

\* C15 as amended: the scroll position is reset only by the effect finding
\* the refetching flag set, after the flag changed from false to true or on
\* the initial mount, or by the pagination control reporting a page change;
\* the end of a refetch and a render with an unchanged flag reset nothing.
C15_ScrollOnRefetchStartOrPageChange ==
    /\ scroll.by \in {"none", "effect", "onPageChange"}
    /\ scroll.by = "effect" =>
          /\ scroll.is /\ search.isRefetching
          /\ scroll.mount \/ ~scroll.was
    /\ scroll.by = "onPageChange" => nav.kind = "none"

\* a change of the page offset in the URL started a refetch and the effect
\* reset the scroll position
C15_Witness ==
    /\ nav.kind = "page"
    /\ scroll.by = "effect"
    /\ ~scroll.was
    /\ search.isRefetching

\* C16: every new product search result sends one view event (search view
\* with the query when q is non-empty, category view with the category
\* otherwise), and every click on a product tile sends one analytics click
\* event carrying the query or the category together with the clicked hit.
C16_AnalyticsOnViewAndClick ==
    /\ analytics.on = "result" =>
          analytics.events = <<IF Truthy(location.q) THEN ViewSearchEvent(location.q)
                               ELSE ViewCategoryEvent(category.data)>>
    /\ analytics.on = "click" =>
          LET sent == {i \in 1..Len(analytics.events) :
                          /\ analytics.events[i].type \in {"clickSearch", "clickCategory"}
                          /\ analytics.events[i].hit \in Hits
                          /\ \/ Truthy(analytics.events[i].query)
                             \/ analytics.events[i].category # None}
          IN  Cardinality(sent) = 1

\* C18: when the render does not throw, the query handed to Configure is the
\* q URL parameter, or the empty string when q is absent, and the filter is
\* 'categories.id:<id>' exactly when the product search is not loading and a
\* category with an id is loaded, the empty string otherwise.
C18_ConfigureFromUrlAndCategory ==
    view.thrown.type = "none" =>
        /\ location.q = Undefined => view.query = ""
        /\ location.q # Undefined => view.query = location.q
        /\ LET loaded == category.data # None /\ category.data[1].id \notin {Undefined, ""}
           IN  IF ~search.isLoading /\ loaded
               THEN view.filters = "categories.id:" \o category.data[1].id
               ELSE view.filters = ""

\* the category is loaded while the product search is still loading: no filter
C18_Witness ==
    /\ category.data = Some([id |-> "c1"])
    /\ search.isLoading
    /\ view.thrown.type = "none"
    /\ view.filters = ""
    /\ view.query = ""

\* C20: every error the category lookup reports makes the render throw, so
\* that the cache header is not set and the page is not rendered.
C20_EveryErrorThrows ==
    category.error # None =>
        /\ view.thrown.type # "none"
        /\ view.cacheControl = None

(***************************************************************************)
(* Further claims on the colour swatches (SpecColors, SpecHover)           *)
(***************************************************************************)

\* C21: for a non-empty colorVariations list the sorted list is a
\* permutation of it: the same length, every source variant exactly once,
\* and no entry that is not a variant.
C21_SortedIsPermutation ==
    (product.colorVariations # None /\ product.colorVariations # Some(<< >>)) =>
        LET cv     == product.colorVariations[1]
            sorted == sortedColorVariations
        IN  /\ Len(sorted) = Len(cv)
            /\ \A i \in 1..Len(cv) :
                  Cardinality({j \in 1..Len(sorted) : sorted[j] = cv[i]}) = 1
            /\ \A j \in 1..Len(sorted) : sorted[j] # NoVariant

\* C22: a hover sets the entry of the tile's product to the first image link
\* of the variant's first image group and leaves the other entries as they
\* were; when the entry already equals that link, setSelectedColors is not
\* called and the state stays as it was.
C22_HoverSetsOwnEntryOnce ==
    hover.masterID # Undefined =>
        LET link == hover.variant[1].image_groups[1].images[1].dis_base_link
        IN  /\ selectedColors[hover.masterID] = link
            /\ \A m \in MasterIDs \ {hover.masterID} :
                  selectedColors[m] = hover.before[m]
            /\ hover.before[hover.masterID] = link =>
                  ~hover.called /\ selectedColors = hover.before

=============================================================================
